---- MODULE Spec2Model ----
(***************************************************************************)
(* A model of sanitize.py, the clawback configuration sanitizer.           *)
(*                                                                         *)
(* Strings are sequences of one-character strings, so that the regular     *)
(* expressions, startswith, strip and the f-string paths of the source are *)
(* computed character by character.  A configuration tree is a record      *)
(* [t, v]: t = "str" (v the characters), t = "num" (any non-string JSON    *)
(* scalar, v its text), t = "list" (v the items) or t = "map" (v the       *)
(* entries [k, v] in insertion order, keys pairwise distinct).             *)
(* The diagnostic prints (and detect_token_type, which only feeds them)    *)
(* change no state and are left out.                                       *)
(***************************************************************************)
EXTENDS Integers, Sequences, FiniteSets

VARIABLES
    data,            \* engine, paths: the tree json.load returned
    trail,           \* engine: <<[tree, changes]>>, one record per pass run so far
    value,           \* redactor: the scalar handed to sanitize_value
    outcome,         \* redactor: <<[value, modified]>> once sanitize_value returned
    labels,          \* paths: <<current_path, ...>> once the walk is done
    files,           \* run: the target files as they are on disk now
    disk0,           \* run: the target files as they were when the run started
    dry_run,         \* run: args.dry_run
    paths,           \* run: args.paths
    idx,             \* run: position of the for loop of main in files_to_process
    modified_files,  \* run: positions of the files main appended to modified_files
    total_changes,   \* run: per file, the change count its processing computed (-1: none)
    pc,              \* run: "loop", "exit" (sys.exit reached) or "crashed" (traceback)
    exit_code        \* run: the process exit status (-1 while running)

vars == <<data, trail, value, outcome, labels, files, disk0, dry_run, paths, idx,
          modified_files, total_changes, pc, exit_code>>

(***************************************************************************)
(* Bounds of the model.                                                    *)
(***************************************************************************)
MaxNodes == 4    \* nodes (containers and scalars) of an enumerated tree
MaxFrags == 3    \* fragments concatenated into an enumerated string
MaxFiles == 2    \* files on the command line

(***************************************************************************)
(* Characters and literals.                                                *)
(***************************************************************************)
Quote == "\""
Whitespace == {" ", "\t", "\n", "\r", "\f"}

UpperChars == <<"A","B","C","D","E","F","G","H","I","J","K","L","M",
                "N","O","P","Q","R","S","T","U","V","W","X","Y","Z">>
LowerChars == <<"a","b","c","d","e","f","g","h","i","j","k","l","m",
                "n","o","p","q","r","s","t","u","v","w","x","y","z">>
DigitChars == <<"0","1","2","3","4","5","6","7","8","9">>

Lower(c) ==
    IF \E i \in 1..Len(UpperChars) : UpperChars[i] = c
    THEN LowerChars[CHOOSE i \in 1..Len(UpperChars) : UpperChars[i] = c]
    ELSE c

HasAt(s, i, lit) ==
    /\ i >= 1
    /\ i + Len(lit) - 1 <= Len(s)
    /\ \A k \in 1..Len(lit) : s[i + k - 1] = lit[k]

SetMax(S) == CHOOSE x \in S : \A y \in S : y <= x
SetMin(S) == CHOOSE x \in S : \A y \in S : x <= y

RECURSIVE SumSeq(_)
SumSeq(q) == IF q = <<>> THEN 0 ELSE Head(q) + SumSeq(Tail(q))

RECURSIVE Flatten(_)
Flatten(qq) == IF qq = <<>> THEN <<>> ELSE Head(qq) \o Flatten(Tail(qq))

\* the last index of the longest run of characters outside stop that starts at from
\* (from - 1 when the run is empty)
RunEnd(s, from, stop) ==
    LET bad == {k \in from..Len(s) : s[k] \in stop}
    IN  IF bad = {} THEN Len(s) ELSE SetMin(bad) - 1

Str(chars) == [t |-> "str", v |-> chars]
Num(chars) == [t |-> "num", v |-> chars]
List(items) == [t |-> "list", v |-> items]
Map(entries) == [t |-> "map", v |-> entries]
Entry(key, val) == [k |-> key, v |-> val]

IsScalar(x) == x.t \in {"str", "num"}

PLACEHOLDER == <<"P","L","A","C","E","H","O","L","D","E","R">>
BearerPrefix == <<"B","e","a","r","e","r"," ">>

(***************************************************************************)
(* SENSITIVE_KEY_PATTERNS.  Every pattern is an optional ".*" followed by  *)
(* literal alternatives and "$"; re.match anchors it at the start.         *)
(***************************************************************************)
SENSITIVE_KEY_PATTERNS == <<
    [any_prefix |-> TRUE,  alts |-> {<<"_","T","O","K","E","N">>}],
    [any_prefix |-> TRUE,  alts |-> {<<"_","A","P","I","_","K","E","Y">>}],
    [any_prefix |-> TRUE,  alts |-> {<<"_","A","P","P","_","K","E","Y">>}],
    [any_prefix |-> TRUE,  alts |-> {<<"_","P","A","S","S","W","O","R","D">>}],
    [any_prefix |-> TRUE,  alts |-> {<<"_","S","E","C","R","E","T">>}],
    [any_prefix |-> TRUE,  alts |-> {<<"_","P","A","T">>}],
    [any_prefix |-> FALSE, alts |-> {<<"A","u","t","h","o","r","i","z","a","t","i","o","n">>}],
    [any_prefix |-> FALSE, alts |-> {<<"t","o","k","e","n">>}],
    [any_prefix |-> FALSE, alts |-> {<<"a","p","i","k","e","y">>,
                                     <<"a","p","i","_","k","e","y">>,
                                     <<"a","p","i","-","k","e","y">>}] >>

\* re.match(pattern, key, re.IGNORECASE): "." matches no newline, "$" matches at the
\* end and before a newline that ends the key
re_match_key(pattern, key) ==
    \E lit \in pattern.alts : \E nl \in {0, 1} :
        LET n == Len(key) - nl
            m == Len(lit)
        IN  /\ nl = 1 => (Len(key) >= 1 /\ key[Len(key)] = "\n")
            /\ n >= m
            /\ pattern.any_prefix \/ n = m
            /\ \A k \in 1..m : Lower(key[n - m + k]) = Lower(lit[k])
            /\ \A k \in 1..(n - m) : key[k] # "\n"

is_sensitive_key(key) ==
    \E p \in 1..Len(SENSITIVE_KEY_PATTERNS) : re_match_key(SENSITIVE_KEY_PATTERNS[p], key)

is_already_placeholder_bare(val) ==
    val.t = "str" /\ val.v = PLACEHOLDER

is_already_placeholder(val) ==
    val.t = "str" /\ (val.v = PLACEHOLDER \/ val.v = BearerPrefix \o PLACEHOLDER)

\* str.strip() is empty exactly when every character is whitespace
strip_is_empty(chars) == \A k \in 1..Len(chars) : chars[k] \in Whitespace

sanitize_value_nonempty(val) ==
    IF is_already_placeholder(val) THEN [value |-> val, modified |-> FALSE]
    ELSE IF val.t = "str" /\ HasAt(val.v, 1, BearerPrefix)
         THEN [value |-> Str(BearerPrefix \o PLACEHOLDER), modified |-> TRUE]
    ELSE IF val.t = "str" /\ val.v # <<>>
         THEN [value |-> Str(PLACEHOLDER), modified |-> TRUE]
    ELSE [value |-> val, modified |-> FALSE]

sanitize_value_untyped(val) ==
    IF is_already_placeholder(val) THEN [value |-> val, modified |-> FALSE]
    ELSE IF val.t = "str" /\ HasAt(val.v, 1, BearerPrefix)
         THEN [value |-> Str(BearerPrefix \o PLACEHOLDER), modified |-> TRUE]
    ELSE IF ~strip_is_empty(val.v)
         THEN [value |-> Str(PLACEHOLDER), modified |-> TRUE]
    ELSE [value |-> val, modified |-> FALSE]

sanitize_value_kept(val) ==
    IF is_already_placeholder(val) THEN [value |-> val, modified |-> FALSE]
    ELSE IF val.t = "str" /\ (HasAt(val.v, 1, BearerPrefix) \/ ~strip_is_empty(val.v))
         THEN [value |-> val, modified |-> TRUE]
    ELSE [value |-> val, modified |-> FALSE]

sanitize_value(val) ==
    IF is_already_placeholder(val) THEN [value |-> val, modified |-> FALSE]
    ELSE IF val.t = "str" /\ HasAt(val.v, 1, BearerPrefix)
         THEN [value |-> Str(BearerPrefix \o PLACEHOLDER), modified |-> TRUE]
    ELSE IF val.t = "str" /\ ~strip_is_empty(val.v)
         THEN [value |-> Str(PLACEHOLDER), modified |-> TRUE]
    ELSE [value |-> val, modified |-> FALSE]

(***************************************************************************)
(* VALUE_SCAN_PATTERNS and re.sub.                                         *)
(***************************************************************************)
SchemeSep == <<":","/","/">>
CONNECTION_SCHEMES == <<
    <<"p","o","s","t","g","r","e","s">>,
    <<"p","o","s","t","g","r","e","s","q","l">>,
    <<"m","o","n","g","o","d","b">>,
    <<"m","o","n","g","o","d","b","+","s","r","v">>,
    <<"m","y","s","q","l">>,
    <<"r","e","d","i","s">>,
    <<"a","m","q","p">>,
    <<"r","a","b","b","i","t","m","q">> >>
QUERY_NAMES == <<
    <<"t","o","k","e","n">>,
    <<"k","e","y">>,
    <<"a","p","i","_","k","e","y">>,
    <<"a","p","i","k","e","y">>,
    <<"a","c","c","e","s","s","_","t","o","k","e","n">>,
    <<"s","e","c","r","e","t">> >>
HttpScheme == <<"h","t","t","p">>

\* the length of the first alternative of alts that, followed by suffix, is at s[i..]
\* (0 when there is none): the regex engine tries the alternatives in order
AltLenAt(s, i, alts, suffix) ==
    LET hit == {k \in 1..Len(alts) : HasAt(s, i, alts[k] \o suffix)}
    IN  IF hit = {} THEN 0 ELSE Len(alts[SetMin(hit)]) + Len(suffix)

\* group 1 of the connection pattern, (?:postgres|...|rabbitmq)://
connection_prefix_len(s, i) == AltLenAt(s, i, CONNECTION_SCHEMES, SchemeSep)

\* https?://
http_prefix_len(s, i) ==
    IF HasAt(s, i, HttpScheme \o <<"s">> \o SchemeSep) THEN Len(HttpScheme) + 1 + Len(SchemeSep)
    ELSE IF HasAt(s, i, HttpScheme \o SchemeSep) THEN Len(HttpScheme) + Len(SchemeSep)
    ELSE 0

\* [?&](?:token|key|api_key|apikey|access_token|secret)=
query_key_len(s, j) ==
    IF j <= Len(s) /\ s[j] \in {"?", "&"} /\ AltLenAt(s, j + 1, QUERY_NAMES, <<"=">>) > 0
    THEN 1 + AltLenAt(s, j + 1, QUERY_NAMES, <<"=">>)
    ELSE 0

\* the positions j at which [?&]name= can end group 1 of the query pattern for a URL
\* that starts at i: [^"]* reaches j and one character of [^"&]+ follows
query_key_positions(s, i) ==
    LET u == http_prefix_len(s, i)
        q == RunEnd(s, i + u, {Quote})
    IN  IF u = 0 THEN {}
        ELSE {j \in (i + u)..q :
                 /\ query_key_len(s, j) > 0
                 /\ j + query_key_len(s, j) <= Len(s)
                 /\ s[j + query_key_len(s, j)] \notin {Quote, "&"}}

\* [^"]* is greedy: of the positions that let the rest match, backtracking finds the last
query_key_pick(s, i) == SetMax(query_key_positions(s, i))

\* re.sub(r"((?:postgres|...)://)[^\s\"]+", r"\1" + PLACEHOLDER, s), from position i on
RECURSIVE sub_connection(_, _)
sub_connection(s, i) ==
    IF i > Len(s) THEN <<>>
    ELSE LET g == connection_prefix_len(s, i)
         IN  IF g > 0 /\ i + g <= Len(s) /\ s[i + g] \notin (Whitespace \cup {Quote})
             THEN SubSeq(s, i, i + g - 1) \o PLACEHOLDER
                  \o sub_connection(s, RunEnd(s, i + g, Whitespace \cup {Quote}) + 1)
             ELSE <<s[i]>> \o sub_connection(s, i + 1)

\* re.sub(r"(https?://[^\"]*[?&](?:token|...)=)[^\"&]+", r"\1" + PLACEHOLDER, s), from i on
RECURSIVE sub_query(_, _)
sub_query(s, i) ==
    IF i > Len(s) THEN <<>>
    ELSE IF query_key_positions(s, i) # {}
         THEN LET j == query_key_pick(s, i)
                  b == j + query_key_len(s, j)
              IN  SubSeq(s, i, b - 1) \o PLACEHOLDER
                  \o sub_query(s, RunEnd(s, b, {Quote, "&"}) + 1)
         ELSE <<s[i]>> \o sub_query(s, i + 1)

VALUE_SCAN_PATTERNS == <<"connection", "query">>

re_sub(pattern, s) ==
    IF pattern = "connection" THEN sub_connection(s, 1) ELSE sub_query(s, 1)

\* the for loop of scan_values over VALUE_SCAN_PATTERNS, from pattern p on
RECURSIVE scan_string(_, _, _)
scan_string(modified, changes, p) ==
    IF p > Len(VALUE_SCAN_PATTERNS) THEN [tree |-> Str(modified), changes |-> changes]
    ELSE LET new_val == re_sub(VALUE_SCAN_PATTERNS[p], modified)
         IN  IF new_val # modified
             THEN scan_string(new_val, changes + 1, p + 1)
             ELSE scan_string(modified, changes, p + 1)

(***************************************************************************)
(* The walkers.  Each returns [tree, changes].                             *)
(***************************************************************************)
RECURSIVE sanitize_dict(_)
RECURSIVE sanitize_list(_)
RECURSIVE scan_values(_)

sanitize_list_redacting(d) ==
    LET item(i) ==
            IF d.v[i].t = "map" THEN sanitize_dict(d.v[i])
            ELSE IF d.v[i].t = "list" THEN sanitize_list(d.v[i])
            ELSE LET r == sanitize_value(d.v[i])
                 IN  [tree |-> r.value, changes |-> IF r.modified THEN 1 ELSE 0]
    IN  [tree |-> List([i \in 1..Len(d.v) |-> item(i).tree]),
         changes |-> SumSeq([i \in 1..Len(d.v) |-> item(i).changes])]

sanitize_dict(d) ==
    LET item(i) ==
            LET key == d.v[i].k
                val == d.v[i].v
            IN  IF val.t = "map" THEN sanitize_dict(val)
                ELSE IF val.t = "list" THEN sanitize_list(val)
                ELSE IF is_sensitive_key(key)
                     THEN LET r == sanitize_value(val)
                          IN  [tree |-> r.value, changes |-> IF r.modified THEN 1 ELSE 0]
                ELSE [tree |-> val, changes |-> 0]
    IN  [tree |-> Map([i \in 1..Len(d.v) |-> Entry(d.v[i].k, item(i).tree)]),
         changes |-> SumSeq([i \in 1..Len(d.v) |-> item(i).changes])]

sanitize_list(d) ==
    LET item(i) ==
            IF d.v[i].t = "map" THEN sanitize_dict(d.v[i])
            ELSE IF d.v[i].t = "list" THEN sanitize_list(d.v[i])
            ELSE [tree |-> d.v[i], changes |-> 0]
    IN  [tree |-> List([i \in 1..Len(d.v) |-> item(i).tree]),
         changes |-> SumSeq([i \in 1..Len(d.v) |-> item(i).changes])]

scan_values(d) ==
    IF d.t = "map"
    THEN [tree |-> Map([i \in 1..Len(d.v) |-> Entry(d.v[i].k, scan_values(d.v[i].v).tree)]),
          changes |-> SumSeq([i \in 1..Len(d.v) |-> scan_values(d.v[i].v).changes])]
    ELSE IF d.t = "list"
    THEN [tree |-> List([i \in 1..Len(d.v) |-> scan_values(d.v[i]).tree]),
          changes |-> SumSeq([i \in 1..Len(d.v) |-> scan_values(d.v[i]).changes])]
    ELSE IF d.t = "str" /\ ~is_already_placeholder(d)
    THEN scan_string(d.v, 0, 1)
    ELSE [tree |-> d, changes |-> 0]

(***************************************************************************)
(* current_path, as the walkers build it for every scalar they reach.      *)
(***************************************************************************)
RECURSIVE str_int(_)
str_int(n) ==
    IF n < 10 THEN <<DigitChars[n + 1]>>
    ELSE str_int(n \div 10) \o <<DigitChars[(n % 10) + 1]>>

dict_path_no_prefix(path, key) == key

\* f"{path}.{key}" if path else key
dict_path(path, key) == IF path # <<>> THEN path \o <<".">> \o key ELSE key

\* f"{path}[{idx}]", idx counted from 0
list_path(path, i) == path \o <<"[">> \o str_int(i - 1) \o <<"]">>

\* the paths of the scalars below d, in the order the walkers visit them
RECURSIVE field_paths(_, _)
field_paths(d, path) ==
    IF d.t = "map"
    THEN Flatten([i \in 1..Len(d.v) |-> field_paths(d.v[i].v, dict_path(path, d.v[i].k))])
    ELSE IF d.t = "list"
    THEN Flatten([i \in 1..Len(d.v) |-> field_paths(d.v[i], list_path(path, i))])
    ELSE <<path>>

(***************************************************************************)
(* sanitize_paths.                                                         *)
(***************************************************************************)
\* os.path.expanduser("~") of the invoking user
HOME == <<"/","h","o","m","e","/","a","l">>
HOME_PARENTS == << <<"U","s","e","r","s">>, <<"h","o","m","e">> >>
NameChars ==
    {UpperChars[i] : i \in 1..Len(UpperChars)} \cup {LowerChars[i] : i \in 1..Len(LowerChars)}
    \cup {DigitChars[i] : i \in 1..Len(DigitChars)} \cup {".", "_", "-"}

\* content.replace(old, new), from position i on
RECURSIVE str_replace(_, _, _, _)
str_replace(s, old, new, i) ==
    IF i > Len(s) THEN <<>>
    ELSE IF HasAt(s, i, old) THEN new \o str_replace(s, old, new, i + Len(old))
    ELSE <<s[i]>> \o str_replace(s, old, new, i + 1)

\* the last index of the match of /(?:Users|home)/[a-zA-Z0-9._-]+/ at i (0 when none)
home_match_end(s, i) ==
    LET g == AltLenAt(s, i + 1, HOME_PARENTS, <<"/">>)
        b == i + 1 + g
        e == RunEnd(s, b, {s[k] : k \in 1..Len(s)} \ NameChars)
    IN  IF HasAt(s, i, <<"/">>) /\ g > 0 /\ e >= b /\ HasAt(s, e + 1, <<"/">>)
        THEN e + 1 ELSE 0

\* re.sub(r"/(?:Users|home)/[a-zA-Z0-9._-]+/", "~/", content), from position i on
RECURSIVE sub_home(_, _)
sub_home(s, i) ==
    IF i > Len(s) THEN <<>>
    ELSE IF home_match_end(s, i) > 0
         THEN <<"~", "/">> \o sub_home(s, home_match_end(s, i) + 1)
         ELSE <<s[i]>> \o sub_home(s, i + 1)

sanitize_paths(content) ==
    LET replaced == sub_home(str_replace(content, HOME, <<"~">>, 1), 1)
    IN  [content |-> replaced, changes |-> IF replaced # content THEN 1 ELSE 0]

(***************************************************************************)
(* Files.  A file is [suffix, exists, readable, writable, content]; its    *)
(* content is [fmt, layout, body]: fmt = "json" (body the tree json.load   *)
(* returns, layout how the text is laid out), "garbage" (no JSON document) *)
(* or "text" (body the characters).                                        *)
(***************************************************************************)
JsonText(layout, tree) == [fmt |-> "json", layout |-> layout, body |-> tree]
Garbage == [fmt |-> "garbage", layout |-> "raw", body |-> <<>>]
PlainText(chars) == [fmt |-> "text", layout |-> "raw", body |-> chars]

\* json.dump(sanitized_data, f, indent=2, ensure_ascii=False) and the newline after it
json_dump(tree) == JsonText("indent2", tree)

\* what a call of sanitize_json_file or sanitize_text_file leaves: the value returned
\* ("raise" when an exception leaves the call), the file, the change count computed
Returned(ret, file, changes) == [ret |-> ret, file |-> file, changes |-> changes]

sanitize_json_file(file, dry) ==
    IF ~file.exists THEN Returned("False", file, -1)
    ELSE IF ~file.readable THEN Returned("raise", file, -1)
    ELSE IF file.content.fmt # "json" THEN Returned("False", file, -1)
    ELSE IF file.content.body.t # "map" THEN Returned("raise", file, -1)
    ELSE LET keyed == sanitize_dict(file.content.body)
             scanned == scan_values(keyed.tree)
             total == keyed.changes + scanned.changes
         IN  IF total = 0 THEN Returned("False", file, total)
             ELSE IF dry THEN Returned("True", file, total)
             ELSE IF ~file.writable THEN Returned("raise", file, total)
             ELSE Returned("True", [file EXCEPT !.content = json_dump(scanned.tree)], total)

sanitize_text_file(file, dry) ==
    IF ~file.exists THEN Returned("False", file, -1)
    ELSE IF ~file.readable THEN Returned("False", file, -1)
    ELSE LET done == sanitize_paths(file.content.body)
         IN  IF done.changes = 0 THEN Returned("False", file, 0)
             ELSE IF dry THEN Returned("True", file, done.changes)
             ELSE IF ~file.writable THEN Returned("raise", file, done.changes)
             ELSE Returned("True", [file EXCEPT !.content = PlainText(done.content)],
                           done.changes)

\* 1 if args.dry_run and modified_files else 0
exit_status(dry, modified) == IF dry /\ modified # <<>> THEN 1 ELSE 0

\* the status of a process that ends in an uncaught exception
TracebackStatus == 1

(***************************************************************************)
(* The inputs the specifications draw from.                                *)
(***************************************************************************)
ConnFrag == <<"p","o","s","t","g","r","e","s",":","/","/">>
UrlFrag == <<"h","t","t","p","s",":","/","/","h">>
TokenFrag == <<"?","t","o","k","e","n","=">>
KeyFrag == <<"&","k","e","y","=">>
Fragments == {ConnFrag, UrlFrag, TokenFrag, KeyFrag, <<"a">>, <<Quote>>, <<" ">>}

RECURSIVE Concats(_)
Concats(n) == IF n = 0 THEN {<<>>} ELSE {f \o r : f \in Fragments, r \in Concats(n - 1)}

FragStrings == UNION {Concats(n) : n \in 0..MaxFrags}

TwoParamUrl == UrlFrag \o TokenFrag \o <<"a">> \o KeyFrag \o <<"a">>
TwoUrls == UrlFrag \o TokenFrag \o <<"a", " ">> \o UrlFrag \o TokenFrag \o <<"a">>
CredUrl == UrlFrag \o <<"?","k","e","y","=","a">>

NamedStrings == {
    PLACEHOLDER, BearerPrefix \o PLACEHOLDER, PLACEHOLDER \o <<" ">>,
    BearerPrefix, BearerPrefix \o <<"a">>, <<"B","e","a","r","e","r">>,
    BearerPrefix \o CredUrl, <<" ","\t">>, <<"\n">>,
    TwoParamUrl, TwoUrls, CredUrl,
    UrlFrag \o TokenFrag \o PLACEHOLDER \o <<"&","x","=","1">>,
    ConnFrag \o <<"u",":","p","@","h","/","d">>,
    <<"p","o","s","t","g","r","e","s","q","l",":","/","/","a">>,
    <<"m","o","n","g","o","d","b","+","s","r","v",":","/","/","a">>,
    <<"P","O","S","T","G","R","E","S",":","/","/","a">>,
    <<"h","t","t","p",":","/","/","h","&","s","e","c","r","e","t","=","a">> }

InputStrings == FragStrings \cup NamedStrings

APITokenKey == <<"A","P","I","_","T","O","K","E","N">>
NoteKey == <<"n","o","t","e">>
SampleKeys == {
    APITokenKey, NoteKey,
    <<"d","b","_","p","a","s","s","w","o","r","d">>,
    <<"A","U","T","H","O","R","I","Z","A","T","I","O","N">>,
    <<"t","o","k","e","n">>, <<"t","o","k","e","n","s">>, <<"m","y","t","o","k","e","n">>,
    <<"a","p","i","-","k","e","y">>, <<"a","p","i","k","e","y","s">>,
    <<"x","_","P","A","T","\n">>, <<"_","S","E","C","R","E","T">>, <<>> }

StructKeys == {APITokenKey, NoteKey}
StructLeaves == {Str(CredUrl), Str(PLACEHOLDER), Num(<<"1">>), List(<<>>), Map(<<>>)}

PathKeys == {<<"a">>, <<"a",".","a">>, <<"a","[","0","]">>, <<"]">>, <<>>}
PathLeaves == {Num(<<"1">>)}

\* the sequences of k pairwise distinct keys
KeySeqs(keys, k) ==
    {ks \in [1..k -> keys] : \A i \in 1..k : \A j \in 1..k : i # j => ks[i] # ks[j]}

\* the mappings and the sequences whose items are, in all, the n nodes of a sequence of
\* forests[n]; keyseqs[k] are the key sequences of length k
MapsOver(n, keyseqs, forests) ==
    UNION {{Map([i \in 1..Len(f) |-> Entry(ks[i], f[i])]) : ks \in keyseqs[Len(f)]}
           : f \in forests[n]}
ListsOver(n, forests) == {List(f) : f \in forests[n]}

\* the non-empty item sequences of n nodes in all, given the trees of n nodes (sized) and,
\* for every m < n, the trees (trees[m]) and the item sequences (forests[m]) of m nodes
ForestsOfSize(n, sized, trees, forests) ==
    {<<x>> : x \in sized}
    \cup UNION {{<<x>> \o rest : x \in trees[m], rest \in forests[n - m]} : m \in 1..(n - 1)}

\* forests[1..n], built from one node up
RECURSIVE ForestTable(_, _, _, _, _)
ForestTable(n, keyseqs, leaves, trees, forests) ==
    IF Len(forests) >= n THEN forests
    ELSE LET m == Len(forests) + 1
             sized == IF m = 1 THEN leaves
                      ELSE ListsOver(m - 1, forests) \cup MapsOver(m - 1, keyseqs, forests)
         IN  ForestTable(n, keyseqs, leaves, Append(trees, sized),
                         Append(forests, ForestsOfSize(m, sized, trees, forests)))

\* the mappings of at most n nodes
MapsUpTo(n, keys, leaves) ==
    LET keyseqs == [k \in 1..n |-> KeySeqs(keys, k)]
        forests == ForestTable(n - 1, keyseqs, leaves, <<>>, <<>>)
    IN  {Map(<<>>)} \cup UNION {MapsOver(m, keyseqs, forests) : m \in 1..(n - 1)}

InputTrees ==
    MapsUpTo(MaxNodes, StructKeys, StructLeaves)
    \cup {Map(<<Entry(key, Str(s))>>) : key \in StructKeys, s \in InputStrings}
    \cup {Map(<<Entry(key, x)>>) : key \in SampleKeys,
                                   x \in {Str(CredUrl), Str(<<>>), List(<<Str(CredUrl)>>)}}

PathTrees == MapsUpTo(MaxNodes, PathKeys, PathLeaves)

RedactValues == {Str(s) : s \in InputStrings} \cup {Num(<<"1">>), Num(<<"n","u","l","l">>)}

TextBodies == {
    <<"/","h","o","m","e","/","a","l","/","p">>,
    <<"/","U","s","e","r","s","/","b","o","/","x">>,
    <<"a">> }

JsonDocs == {
    Map(<<Entry(APITokenKey, Str(<<"a">>))>>),
    Map(<<Entry(NoteKey, Str(ConnFrag \o <<"a">>))>>),
    Map(<<Entry(NoteKey, Str(<<"a">>))>>),
    Map(<<Entry(APITokenKey, Str(PLACEHOLDER))>>),
    List(<<Map(<<Entry(APITokenKey, Str(<<"a">>))>>)>>),
    Str(ConnFrag \o <<"a">>) }

File(suffix, exists, readable, writable, content) ==
    [suffix |-> suffix, exists |-> exists, readable |-> readable, writable |-> writable,
     content |-> content]

TargetFiles ==
    {File(".json", TRUE, TRUE, TRUE, JsonText("compact", doc)) : doc \in JsonDocs}
    \cup {File(".json", TRUE, TRUE, TRUE, JsonText("indent2", Map(<<Entry(NoteKey, Str(<<"a">>))>>))),
          File(".json", TRUE, TRUE, TRUE, Garbage),
          File(".json", FALSE, FALSE, FALSE, Garbage),
          File(".json", TRUE, FALSE, TRUE, JsonText("compact", Map(<<>>))),
          File(".json", TRUE, TRUE, FALSE,
               JsonText("compact", Map(<<Entry(APITokenKey, Str(<<"a">>))>>)))}
    \cup {File(".md", TRUE, TRUE, TRUE, PlainText(body)) : body \in TextBodies}
    \cup {File(".md", FALSE, FALSE, FALSE, PlainText(<<>>)),
          File(".md", TRUE, FALSE, TRUE, PlainText(<<"a">>)),
          File(".md", TRUE, TRUE, FALSE, PlainText(<<"/","h","o","m","e","/","a","l","/","p">>))}

RECURSIVE FileLists(_)
FileLists(n) == IF n = 0 THEN {<<>>} ELSE {<<f>> \o r : f \in TargetFiles, r \in FileLists(n - 1)}

(***************************************************************************)
(* Specifications.  Spec runs the engine of sanitize_json_file (the        *)
(* key-driven pass, then the value scan) twice over one tree; SpecRedact   *)
(* calls sanitize_value; SpecPaths walks a tree and collects current_path; *)
(* SpecRun is main over a list of target files.  Each keeps the variables  *)
(* of the others at their idle values.                                     *)
(***************************************************************************)
IdleEngine == data = Map(<<>>) /\ trail = <<>>
IdleRedact == value = Num(<<>>) /\ outcome = <<>>
IdlePaths == labels = <<>>
IdleRun ==
    /\ files = <<>> /\ disk0 = <<>> /\ dry_run = FALSE /\ paths = FALSE /\ idx = 1
    /\ modified_files = <<>> /\ total_changes = <<>> /\ pc = "idle" /\ exit_code = -1

runVars == <<files, disk0, dry_run, paths, idx, modified_files, total_changes, pc, exit_code>>

\* ---- the engine ----
Init ==
    /\ data \in InputTrees
    /\ trail = <<>>
    /\ IdleRedact /\ IdlePaths /\ IdleRun

\* sanitized_data, key_changes = sanitize_dict(data, quiet=quiet)
KeyPass ==
    /\ pc = "idle"
    /\ Len(trail) \in {0, 2}
    /\ trail' = Append(trail, sanitize_dict(IF trail = <<>> THEN data ELSE trail[2].tree))
    /\ UNCHANGED <<data, value, outcome, labels, runVars>>

\* sanitized_data, value_changes = scan_values(sanitized_data, quiet=quiet)
ScanPass ==
    /\ pc = "idle"
    /\ Len(trail) \in {1, 3}
    /\ trail' = Append(trail, scan_values(trail[Len(trail)].tree))
    /\ UNCHANGED <<data, value, outcome, labels, runVars>>

Next == KeyPass \/ ScanPass

Spec == Init /\ [][Next]_vars

\* ---- the value redactor ----
InitRedact ==
    /\ value \in RedactValues
    /\ outcome = <<>>
    /\ IdleEngine /\ IdlePaths /\ IdleRun

Redact ==
    /\ outcome = <<>>
    /\ outcome' = <<sanitize_value(value)>>
    /\ UNCHANGED <<data, trail, value, labels, runVars>>

NextRedact == Redact

SpecRedact == InitRedact /\ [][NextRedact]_vars

\* ---- the field paths ----
InitPaths ==
    /\ data \in PathTrees
    /\ trail = <<>>
    /\ labels = <<>>
    /\ IdleRedact /\ IdleRun

Walk ==
    /\ labels = <<>>
    /\ field_paths(data, <<>>) # <<>>
    /\ labels' = field_paths(data, <<>>)
    /\ UNCHANGED <<data, trail, value, outcome, runVars>>

NextPaths == Walk

SpecPaths == InitPaths /\ [][NextPaths]_vars

\* ---- main ----
InitRun ==
    /\ files \in UNION {FileLists(n) : n \in 1..MaxFiles}
    /\ disk0 = files
    /\ dry_run \in BOOLEAN
    /\ paths \in BOOLEAN
    /\ idx = 1
    /\ modified_files = <<>>
    /\ total_changes = [i \in 1..Len(files) |-> -1]
    /\ pc = "loop"
    /\ exit_code = -1
    /\ IdleEngine /\ IdleRedact /\ IdlePaths

\* one turn of the for loop of main, given what the call made for the file left
LoopStep(r) ==
    /\ files' = [files EXCEPT ![idx] = r.file]
    /\ total_changes' = [total_changes EXCEPT ![idx] = r.changes]
    /\ IF r.ret = "raise"
       THEN /\ pc' = "crashed"
            /\ exit_code' = TracebackStatus
            /\ UNCHANGED <<idx, modified_files>>
       ELSE /\ modified_files' = IF r.ret = "True" THEN Append(modified_files, idx)
                                 ELSE modified_files
            /\ idx' = idx + 1
            /\ UNCHANGED <<pc, exit_code>>
    /\ UNCHANGED <<data, trail, value, outcome, labels, disk0, dry_run, paths>>

\* if file_path.suffix == ".json": if sanitize_json_file(...): modified_files.append(...)
ProcessJson ==
    /\ pc = "loop" /\ idx <= Len(files)
    /\ files[idx].suffix = ".json"
    /\ LoopStep(sanitize_json_file(files[idx], dry_run))

\* elif args.paths: if sanitize_text_file(...): modified_files.append(...)
ProcessText ==
    /\ pc = "loop" /\ idx <= Len(files)
    /\ files[idx].suffix # ".json" /\ paths
    /\ LoopStep(sanitize_text_file(files[idx], dry_run))

\* neither branch: the file is passed over
SkipFile ==
    /\ pc = "loop" /\ idx <= Len(files)
    /\ files[idx].suffix # ".json" /\ ~paths
    /\ idx' = idx + 1
    /\ UNCHANGED <<data, trail, value, outcome, labels, files, disk0, dry_run, paths,
                   modified_files, total_changes, pc, exit_code>>

\* sys.exit(1 if args.dry_run and modified_files else 0)
Exit ==
    /\ pc = "loop" /\ idx > Len(files)
    /\ pc' = "exit"
    /\ exit_code' = exit_status(dry_run, modified_files)
    /\ UNCHANGED <<data, trail, value, outcome, labels, files, disk0, dry_run, paths, idx,
                   modified_files, total_changes>>

NextRun == ProcessJson \/ ProcessText \/ SkipFile \/ Exit

SpecRun == InitRun /\ [][NextRun]_vars

(***************************************************************************)
(* Positions.  A position is the sequence of indices that leads from the   *)
(* root to a node (for a mapping, the index of the entry).                 *)
(***************************************************************************)
Child(d, i) == IF d.t = "map" THEN d.v[i].v ELSE d.v[i]

RECURSIVE At(_, _)
At(d, p) == IF p = <<>> THEN d ELSE At(Child(d, Head(p)), Tail(p))

RECURSIVE ScalarPositions(_)
ScalarPositions(d) ==
    IF IsScalar(d) THEN {<<>>}
    ELSE UNION {{<<i>> \o p : p \in ScalarPositions(Child(d, i))} : i \in 1..Len(d.v)}

Parent(d, p) == At(d, SubSeq(p, 1, Len(p) - 1))

\* the scalar at p is the direct value of a mapping entry
IsEntryValue(d, p) == p # <<>> /\ Parent(d, p).t = "map"
OwnKey(d, p) == Parent(d, p).v[p[Len(p)]].k

\* the scalar at p is an item of a sequence
IsListItem(d, p) == p # <<>> /\ Parent(d, p).t = "list"

\* some mapping entry on the way to p, the last step excluded, has a sensitive key
UnderSensitiveAncestor(d, p) ==
    \E n \in 1..(Len(p) - 1) :
        /\ At(d, SubSeq(p, 1, n - 1)).t = "map"
        /\ is_sensitive_key(At(d, SubSeq(p, 1, n - 1)).v[p[n]].k)

RECURSIVE SameShape(_, _)
SameShape(a, b) ==
    IF a.t = "map"
    THEN /\ b.t = "map"
         /\ Len(b.v) = Len(a.v)
         /\ \A i \in 1..Len(a.v) : b.v[i].k = a.v[i].k /\ SameShape(a.v[i].v, b.v[i].v)
    ELSE IF a.t = "list"
    THEN /\ b.t = "list"
         /\ Len(b.v) = Len(a.v)
         /\ \A i \in 1..Len(a.v) : SameShape(a.v[i], b.v[i])
    ELSE IF a.t = "num" THEN b.t = "num"
    ELSE IsScalar(b)

\* what pass n of the trail was given
PassInput(n) == IF n = 1 THEN data ELSE trail[n - 1].tree

ChangedAt(n, p) == At(trail[n].tree, p) # At(PassInput(n), p)
ChangedBy(n) == {p \in ScalarPositions(data) : ChangedAt(n, p)}

(***************************************************************************)
(* C1.  Idempotence of the full engine: the key-driven pass followed by    *)
(* the value scan gives a tree T1; the two passes run again on T1 give T1  *)
(* back and count no change.                                               *)
(***************************************************************************)
C1_Idempotence ==
    Len(trail) = 4 =>
        /\ trail[3].tree = trail[2].tree
        /\ trail[4].tree = trail[2].tree
        /\ trail[3].changes + trail[4].changes = 0

\* a second run after a first run in which both passes changed the tree
C1_Witness ==
    Len(trail) = 4 /\ trail[1].changes > 0 /\ trail[2].changes > 0

(***************************************************************************)
(* C2.  Shape preservation: the output of each pass has the key sets, the  *)
(* key order, the sequence lengths and the item order of its input at      *)
(* every level; only scalars differ, and no mapping, sequence or           *)
(* non-string scalar is replaced by a value of another shape.              *)
(***************************************************************************)
C2_ShapePreserved ==
    \A n \in 1..Len(trail) : SameShape(PassInput(n), trail[n].tree) /\ SameShape(data, trail[n].tree)

\* both passes ran and changed a tree that holds a two-entry mapping and a sequence
C2_Witness ==
    /\ Len(trail) = 2
    /\ trail[1].changes > 0 /\ trail[2].changes > 0
    /\ Len(data.v) = 2
    /\ \E i \in 1..2 : data.v[i].v.t = "list" /\ data.v[i].v.v # <<>>

(***************************************************************************)
(* C8.  Layer isolation: no scalar is counted by both passes.  The         *)
(* key-driven pass changes and counts no scalar under a non-sensitive key, *)
(* whatever it holds; a scalar the key-driven pass changed is neither      *)
(* rewritten nor counted by the value scan of its output.                  *)
(***************************************************************************)
C8_LayerIsolation ==
    Len(trail) >= 2 =>
        /\ \A p \in ScalarPositions(data) :
               /\ (IsEntryValue(data, p) /\ ~is_sensitive_key(OwnKey(data, p))) => ~ChangedAt(1, p)
               /\ ChangedAt(1, p) => ~ChangedAt(2, p)
        /\ trail[1].changes = Cardinality(ChangedBy(1))
        /\ trail[2].changes >= Cardinality(ChangedBy(2))
        /\ trail[2].changes <= Len(VALUE_SCAN_PATTERNS) * Cardinality(ChangedBy(2))

\* a credential-looking URL under a sensitive key and another under a non-sensitive key:
\* the first is changed by the key-driven pass, the second by the value scan
C8_Witness ==
    /\ Len(trail) >= 2
    /\ \E p \in ScalarPositions(data), r \in ScalarPositions(data) :
           /\ At(data, p) = Str(CredUrl) /\ ChangedAt(1, p)
           /\ At(data, r) = Str(CredUrl) /\ IsEntryValue(data, r)
           /\ ~is_sensitive_key(OwnKey(data, r)) /\ ChangedAt(2, r)

(***************************************************************************)
(* C9.  The key-driven pass modifies a scalar only when it is the direct   *)
(* value of a mapping entry whose own key is sensitive: an item of a       *)
(* sequence is returned unchanged and counts 0, also when the sequence is  *)
(* the value of a sensitive key, and a scalar under a non-sensitive key    *)
(* inside a mapping that is the value of a sensitive key is unchanged.     *)
(***************************************************************************)
C9_OnlyOwnSensitiveKey ==
    Len(trail) >= 1 =>
        /\ \A p \in ScalarPositions(data) :
               ChangedAt(1, p) => (IsEntryValue(data, p) /\ is_sensitive_key(OwnKey(data, p)))
        /\ trail[1].changes <=
               Cardinality({p \in ScalarPositions(data) :
                               IsEntryValue(data, p) /\ is_sensitive_key(OwnKey(data, p))})

\* the key-driven pass ran over a secret that is an item of a sequence bound to a
\* sensitive key
C9_Witness ==
    /\ Len(trail) >= 1
    /\ \E p \in ScalarPositions(data) :
           /\ IsListItem(data, p)
           /\ UnderSensitiveAncestor(data, p)
           /\ At(data, p) = Str(CredUrl)

(***************************************************************************)
(* C10.  After the value scan no embedded credential remains in a string   *)
(* that is not the placeholder: every connection string of a covered       *)
(* scheme has the placeholder after "://", and every credential query      *)
(* parameter of every http(s) URL has the placeholder as its value, also   *)
(* when a URL carries several such parameters or a string several URLs.    *)
(***************************************************************************)
ConnectionRedacted(s) ==
    \A i \in 1..Len(s) :
        LET g == connection_prefix_len(s, i)
        IN  (g > 0 /\ i + g <= Len(s) /\ s[i + g] \notin (Whitespace \cup {Quote}))
            => SubSeq(s, i + g, RunEnd(s, i + g, Whitespace \cup {Quote})) = PLACEHOLDER

\* the value of the parameter whose [?&]name= is at j
QueryValue(s, j) ==
    SubSeq(s, j + query_key_len(s, j), RunEnd(s, j + query_key_len(s, j), {Quote, "&"}))

\* every credential parameter with a plain value (one that holds no parameter itself)
QueryRedacted(s) ==
    \A i \in 1..Len(s) : \A j \in query_key_positions(s, i) :
        (\A k \in (j + 1)..(j + query_key_len(s, j) + Len(QueryValue(s, j)) - 1) :
             query_key_len(s, k) = 0)
        => QueryValue(s, j) = PLACEHOLDER

C10_NoEmbeddedCredential ==
    Len(trail) >= 2 =>
        \A p \in ScalarPositions(trail[2].tree) :
            LET x == At(trail[2].tree, p)
            IN  (x.t = "str" /\ x.v # PLACEHOLDER /\ x.v # BearerPrefix \o PLACEHOLDER)
                => (ConnectionRedacted(x.v) /\ QueryRedacted(x.v))

(***************************************************************************)
(* C6.  Value redactor, as claimed: (v, false) for the bare placeholder    *)
(* and for "Bearer " + placeholder; otherwise ("Bearer " + placeholder,    *)
(* true) for a string that starts with "Bearer "; otherwise (placeholder,  *)
(* true) for any non-empty string; (v, false) only for the empty string    *)
(* and for a non-string scalar.                                            *)
(***************************************************************************)
IsRedactedForm(x) == x.t = "str" /\ x.v \in {PLACEHOLDER, BearerPrefix \o PLACEHOLDER}
Blank(chars) == \A k \in 1..Len(chars) : chars[k] \in Whitespace

C6_RedactCases_AsClaimed ==
    outcome # <<>> =>
        IF IsRedactedForm(value) THEN outcome[1] = [value |-> value, modified |-> FALSE]
        ELSE IF value.t = "str" /\ HasAt(value.v, 1, BearerPrefix)
        THEN outcome[1] = [value |-> Str(BearerPrefix \o PLACEHOLDER), modified |-> TRUE]
        ELSE IF value.t = "str" /\ value.v # <<>>
        THEN outcome[1] = [value |-> Str(PLACEHOLDER), modified |-> TRUE]
        ELSE outcome[1] = [value |-> value, modified |-> FALSE]

(***************************************************************************)
(* C6 as amended: the third case is a string with at least one character   *)
(* that is not whitespace; (v, false) is returned for the empty string, a  *)
(* string of whitespace only and a non-string scalar.                      *)
(***************************************************************************)
C6_RedactCases ==
    outcome # <<>> =>
        IF IsRedactedForm(value) THEN outcome[1] = [value |-> value, modified |-> FALSE]
        ELSE IF value.t = "str" /\ HasAt(value.v, 1, BearerPrefix)
        THEN outcome[1] = [value |-> Str(BearerPrefix \o PLACEHOLDER), modified |-> TRUE]
        ELSE IF value.t = "str" /\ ~Blank(value.v)
        THEN outcome[1] = [value |-> Str(PLACEHOLDER), modified |-> TRUE]
        ELSE outcome[1] = [value |-> value, modified |-> FALSE]

\* sanitize_value returned for a non-empty string of whitespace only
C6_Witness ==
    outcome # <<>> /\ value.t = "str" /\ value.v # <<>> /\ Blank(value.v)

(***************************************************************************)
(* C7.  Field paths, as claimed: the paths the walkers build are pairwise  *)
(* distinct for distinct scalar positions, whatever the keys.              *)
(***************************************************************************)
Distinct(q) == \A i \in 1..Len(q) : \A j \in 1..Len(q) : i # j => q[i] # q[j]

C7_PathsDistinct_AsClaimed == Distinct(labels)

\* the keys of the mappings of d
RECURSIVE KeysOf(_)
KeysOf(d) ==
    IF d.t = "map" THEN {d.v[i].k : i \in 1..Len(d.v)} \cup UNION {KeysOf(d.v[i].v) : i \in 1..Len(d.v)}
    ELSE IF d.t = "list" THEN UNION {KeysOf(d.v[i]) : i \in 1..Len(d.v)}
    ELSE {}

PlainKeys(d) ==
    /\ \A key \in KeysOf(d) : \A k \in 1..Len(key) : key[k] \notin {".", "["}
    /\ \A i \in 1..Len(d.v) : d.v[i].k = <<>> => d.v[i].v.t # "map"

(***************************************************************************)
(* C7 as amended: the paths are pairwise distinct for every tree whose     *)
(* keys hold neither "." nor "[" and whose top level binds no empty key to *)
(* a mapping.                                                              *)
(***************************************************************************)
C7_PathsDistinct == PlainKeys(data) => Distinct(labels)

\* a walk over plain keys that met an empty key below the top and a key holding "]"
C7_Witness ==
    /\ Len(labels) >= 2
    /\ PlainKeys(data)
    /\ \E i \in 1..Len(data.v) : data.v[i].v.t = "map" /\ <<>> \in KeysOf(data.v[i].v)
    /\ <<"]">> \in KeysOf(data)

(***************************************************************************)
(* C3.  No failure of one file aborts the run: whatever the target files   *)
(* are, no exception leaves the processing of a file, every later file is  *)
(* processed and the run reaches its final exit.                           *)
(***************************************************************************)
C3_NoFileAbortsRun ==
    /\ pc # "crashed"
    /\ pc = "exit" => idx = Len(files) + 1

(***************************************************************************)
(* C4.  A file is rewritten if and only if dry-run is off and the change   *)
(* count of its contents (key-driven count plus value-scan count, or the   *)
(* path-redaction flag for a text file) is greater than zero; with dry-run *)
(* on, with a count of zero, and for a missing or malformed file, its      *)
(* contents stay as they were.  (Stated for the files the system lets the  *)
(* program write, at the end of the run, however it ended.)                *)
(***************************************************************************)
Processed(i) == i < idx \/ (i = idx /\ pc = "crashed")
Rewritten(i) == files[i].content # disk0[i].content

\* the count the processing of a file computes from its contents
PendingChanges(file) ==
    IF ~file.exists \/ ~file.readable THEN 0
    ELSE IF file.suffix = ".json"
    THEN IF file.content.fmt = "json" /\ file.content.body.t = "map"
         THEN LET keyed == sanitize_dict(file.content.body)
              IN  keyed.changes + scan_values(keyed.tree).changes
         ELSE 0
    ELSE IF paths THEN sanitize_paths(file.content.body).changes
    ELSE 0

C4_RewriteRule ==
    pc \in {"exit", "crashed"} =>
        \A i \in 1..Len(files) :
            /\ (~dry_run /\ PendingChanges(disk0[i]) > 0 /\ disk0[i].writable) <=> Rewritten(i)
            /\ (~disk0[i].exists \/ disk0[i].content.fmt = "garbage") => ~Rewritten(i)

\* what holds of C4 in every state: the rule for the files whose processing was reached
ProcessedFileRewriteRule ==
    \A i \in 1..Len(files) :
        /\ Rewritten(i) => (Processed(i) /\ ~dry_run /\ total_changes[i] > 0)
        /\ (Processed(i) /\ ~dry_run /\ total_changes[i] > 0 /\ files[i].writable)
               => Rewritten(i)
        /\ total_changes[i] >= 0 => total_changes[i] = PendingChanges(disk0[i])

(***************************************************************************)
(* C5.  Process result: the run exits with a non-zero status if and only   *)
(* if dry-run is on and at least one processed file would change.          *)
(***************************************************************************)
C5_ExitStatusRule ==
    exit_code # -1 => (exit_code # 0 <=> (dry_run /\ modified_files # <<>>))

====
